---- MODULE Spec2Model ----
(***************************************************************************)
(* The conversion job pipeline of the Telegram -> WhatsApp sticker bot:    *)
(* QueueManager (src/queue_manager.py), the two coroutines of BotHandlers  *)
(* that drive it, handle_message and process_queue (src/bot_handlers.py),  *)
(* and the two size policies of the converter: the animated ladder         *)
(* (src/video_to_webp.py) and the static descent (src/utils.py).           *)
(*                                                                         *)
(* The specifications share the variables:                                 *)
(*   SpecQM    the QueueManager object under every sequence of calls of    *)
(*             its three mutating operations;                              *)
(*   Spec      the program: handle_message tasks and the process_queue     *)
(*             tasks they create, interleaved at their suspension points;  *)
(*   SpecBody  Spec plus the statements of process_queue's try block that  *)
(*             follow the first read of item.pack_name (see                *)
(*             PQ_NotifyStartSent);                                        *)
(*   SpecConvert   one run of VideoToWebPConverter.convert, for every      *)
(*             frame count and every encoder;                              *)
(*   SpecOptimize  one call of optimize_image_size, for every encoder;     *)
(*   SpecPack  one call of create_wastickers_pack, for every set size;     *)
(*   SpecChunk one call of _create_single_wastickers_pack, for every       *)
(*             outcome of its items;                                       *)
(*   SpecTiming    the frame duration of the animation convert writes;     *)
(*   SpecSanitize  one call of sanitize_filename;                          *)
(*   SpecSearch    one call of _binary_search, for every search space and  *)
(*             every evaluator;                                            *)
(*   SpecDeliver   the bundles of one job, from the archive names to the   *)
(*             send loop of process_queue;                                 *)
(*   SpecLock  QueueManager._lock under the event loop's scheduling.       *)
(***************************************************************************)
EXTENDS Integers, Sequences, FiniteSets

\* ---- bounds ----
NumUsers == 2
MaxJobs == 2
MaxBundles == 2

Users == 1..NumUsers
\* one process_queue task can be created per appended job at most
Tasks == 1..MaxJobs

\* Python's None for a QueueItem reference / an absent dict key
NoItem == 0
\* Python's None as the result of get_queue_position
NonePos == -1
\* the values a QueueItem reference and a position can take
ItemRefs == 0..MaxJobs
Positions == 0..(MaxJobs + 1)

\* the attributes of a QueueItem instance
QueueItemFields ==
    {"user_id", "username", "chat_id", "message_id", "pack_input", "timestamp", "status"}

VARIABLES
    items,           \* the QueueItem objects created so far, by object id
    queue,           \* QueueManager.queue: list of object ids
    processing,      \* QueueManager.processing: object id or NoItem
    user_queues,     \* QueueManager.user_queues: user_id -> object id (NoItem: no key)
    enq,             \* history: object ids in the order add_to_queue appended them
    served,          \* history: object ids in the order get_next_item returned them
    ret,             \* SpecQM: the last QueueManager call and its return value
    tick,            \* SpecQM: flips at every QueueManager call
    hpc,             \* handle_message task of each user: its suspension point
    hpos,            \* handle_message: local variable position of line 195
    scheduled,       \* process_queue tasks created that have not yet got processing_lock
    wpc,             \* process_queue tasks past the lock: suspension point ("none": no task)
    witem,           \* process_queue: local variable item
    wfiles,          \* process_queue: len(wastickers_files)
    widx,            \* process_queue: files of wastickers_files already handled
    wcalls,          \* history: complete_processing calls of the current iteration
    wraised,         \* history: statement of the current iteration that raised
    processing_lock, \* BotHandlers.processing_lock is held
    disk,            \* output files of the worker's current job that are on disk
    original_total_frames, \* convert: len(all_frames)
    cpc,             \* convert: the stage it is in ("idle": no conversion)
    low,             \* _binary_search: local variable low
    high,            \* _binary_search: local variable high
    best_value,      \* _binary_search: local variable best_value
    best_size,       \* _binary_search: local variable best_size
    search_result,   \* convert: the pair the last _binary_search returned
    final_frames,    \* convert: the indices into all_frames of final_frames
    final_quality,   \* convert: local variable final_quality
    current_size,    \* convert: local variable current_size
    enc,             \* the encoder: sizes it has returned, by <<frame count, quality>>
    evaluations,     \* history: calls of the encoder / of an evaluator so far
    opc,             \* optimize_image_size: where it is ("idle": not called)
    quality,         \* optimize_image_size: loop variable quality
    tried,           \* history: the <<quality, size>> encodings made so far
    image_size,      \* len(image_data): the file written by _convert_image_to_webp
    output,          \* optimize_image_size: the <<quality, size>> it returned
    pack,            \* create_wastickers_pack: its locals and the directories ("idle": not called)
    chunk,           \* _create_single_wastickers_pack: its locals and files ("idle": not called)
    webp,            \* the animation being written: frames, durations ("idle": none)
    fname,           \* sanitize_filename: its argument and local ("idle": not called)
    bsearch,         \* _binary_search on its own: arguments and locals ("idle": not called)
    deliver,         \* a job's bundles from build to delivery ("idle": no such job)
    sched            \* the event loop and QueueManager._lock ("idle": not observed)

qvars == <<items, queue, processing, user_queues, enq, served>>
ovars == <<ret, tick>>
hvars == <<hpc, hpos>>
wvars == <<scheduled, wpc, witem, wfiles, widx, wcalls, wraised, processing_lock, disk>>
dvars == <<bsearch, deliver, sched>>
bvars == <<pack, chunk, webp, fname, dvars>>
pvars == <<qvars, ovars, hvars, wvars, bvars>>
svars == <<low, high, best_value, best_size>>
cvars == <<original_total_frames, cpc, low, high, best_value, best_size, search_result,
           final_frames, final_quality, current_size, enc, evaluations>>
ivars == <<opc, quality, tried, image_size, output>>
fvars == <<cvars, ivars, bvars>>
xvars == <<qvars, ovars, hvars, wvars, cvars, ivars, dvars>>
zvars == <<qvars, ovars, hvars, wvars, cvars, ivars, pack, chunk, webp, fname>>
vars == <<items, queue, processing, user_queues, enq, served, ret, tick,
          hpc, hpos, scheduled, wpc, witem, wfiles, widx, wcalls, wraised,
          processing_lock, disk,
          original_total_frames, cpc, low, high, best_value, best_size, search_result,
          final_frames, final_quality, current_size, enc, evaluations,
          opc, quality, tried, image_size, output,
          pack, chunk, webp, fname, bsearch, deliver, sched>>

----------------------------------------------------------------------------
\* QueueManager

\* list.index(item): 1-based here, 0 when the item is not in the list
IndexOf(seq, x) ==
    IF \E i \in 1..Len(seq) : seq[i] = x
    THEN CHOOSE i \in 1..Len(seq) : seq[i] = x /\ \A j \in 1..(i-1) : seq[j] # x
    ELSE 0

get_position_noactive(user_id) ==
    LET item == user_queues[user_id] IN
    IF item = NoItem THEN 0
    ELSE IF items[item].status = "processing" THEN 1
    ELSE IF IndexOf(queue, item) = 0 THEN 0
    ELSE (IndexOf(queue, item) - 1) + 1

get_position(user_id) ==
    LET item == user_queues[user_id] IN
    IF item = NoItem THEN 0
    ELSE IF items[item].status = "processing" THEN 1
    ELSE IF IndexOf(queue, item) = 0 THEN 0
    ELSE (IndexOf(queue, item) - 1) + 1 + (IF processing # NoItem THEN 1 ELSE 0)

get_queue_position(user_id) ==
    IF user_queues[user_id] = NoItem THEN NonePos ELSE get_position(user_id)

is_user_in_queue(user_id) ==
    /\ user_queues[user_id] # NoItem
    /\ items[user_queues[user_id]].status \in {"waiting", "processing"}

QueueItem(user_id) == [user_id |-> user_id, status |-> "waiting"]

\* The three mutating operations, each as the relation between its arguments,
\* the value r it returns and its effect on the QueueManager object.  Each runs
\* under self._lock without suspending, hence as one step.

add_to_queue_dup(user_id, r) ==
    /\ Len(items) < MaxJobs
    /\ items' = Append(items, QueueItem(user_id))
    /\ queue' = Append(queue, Len(items) + 1)
    /\ user_queues' = [user_queues EXCEPT ![user_id] = Len(items) + 1]
    /\ enq' = Append(enq, Len(items) + 1)
    /\ r = Len(queue')
    /\ UNCHANGED <<processing, served>>

add_to_queue(user_id, r) ==
    IF /\ user_queues[user_id] # NoItem
       /\ items[user_queues[user_id]].status \in {"waiting", "processing"}
    THEN /\ r = get_position(user_id)
         /\ UNCHANGED <<items, queue, processing, user_queues, enq, served>>
    ELSE /\ Len(items) < MaxJobs
         /\ items' = Append(items, QueueItem(user_id))
         /\ queue' = Append(queue, Len(items) + 1)
         /\ user_queues' = [user_queues EXCEPT ![user_id] = Len(items) + 1]
         /\ enq' = Append(enq, Len(items) + 1)
         /\ r = Len(queue')
         /\ UNCHANGED <<processing, served>>

get_next_item_lifo(r) ==
    IF processing # NoItem \/ queue = <<>>
    THEN /\ r = NoItem
         /\ UNCHANGED <<items, queue, processing, user_queues, enq, served>>
    ELSE /\ r = queue[Len(queue)]
         /\ queue' = SubSeq(queue, 1, Len(queue) - 1)
         /\ items' = [items EXCEPT ![r].status = "processing"]
         /\ processing' = r
         /\ served' = Append(served, r)
         /\ UNCHANGED <<user_queues, enq>>

get_next_item_busy(r) ==
    IF queue = <<>>
    THEN /\ r = NoItem
         /\ UNCHANGED <<items, queue, processing, user_queues, enq, served>>
    ELSE /\ r = Head(queue)
         /\ queue' = Tail(queue)
         /\ items' = [items EXCEPT ![r].status = "processing"]
         /\ processing' = r
         /\ served' = Append(served, r)
         /\ UNCHANGED <<user_queues, enq>>

get_next_item(r) ==
    IF processing # NoItem
    THEN /\ r = NoItem
         /\ UNCHANGED <<items, queue, processing, user_queues, enq, served>>
    ELSE IF queue = <<>>
    THEN /\ r = NoItem
         /\ UNCHANGED <<items, queue, processing, user_queues, enq, served>>
    ELSE /\ r = Head(queue)
         /\ queue' = Tail(queue)
         /\ items' = [items EXCEPT ![r].status = "processing"]
         /\ processing' = r
         /\ served' = Append(served, r)
         /\ UNCHANGED <<user_queues, enq>>

complete_processing_keep(user_id, success) ==
    IF processing # NoItem /\ items[processing].user_id = user_id
    THEN /\ items' = [items EXCEPT ![processing].status =
                         IF success THEN "completed" ELSE "error"]
         /\ processing' = NoItem
         /\ UNCHANGED <<queue, user_queues, enq, served>>
    ELSE UNCHANGED <<items, queue, processing, user_queues, enq, served>>

complete_processing_any(user_id, success) ==
    IF processing # NoItem
    THEN /\ items' = [items EXCEPT ![processing].status =
                         IF success THEN "completed" ELSE "error"]
         /\ user_queues' = [user_queues EXCEPT ![items[processing].user_id] = NoItem]
         /\ processing' = NoItem
         /\ UNCHANGED <<queue, enq, served>>
    ELSE UNCHANGED <<items, queue, processing, user_queues, enq, served>>

complete_processing_ok(user_id, success) ==
    IF processing # NoItem /\ items[processing].user_id = user_id
    THEN /\ items' = [items EXCEPT ![processing].status = "completed"]
         /\ user_queues' = [user_queues EXCEPT ![user_id] = NoItem]
         /\ processing' = NoItem
         /\ UNCHANGED <<queue, enq, served>>
    ELSE UNCHANGED <<items, queue, processing, user_queues, enq, served>>

complete_processing_byindex(user_id, success) ==
    IF user_queues[user_id] # NoItem
    THEN /\ items' = [items EXCEPT ![user_queues[user_id]].status =
                         IF success THEN "completed" ELSE "error"]
         /\ user_queues' = [user_queues EXCEPT ![user_id] = NoItem]
         /\ processing' = IF processing = user_queues[user_id] THEN NoItem ELSE processing
         /\ UNCHANGED <<queue, enq, served>>
    ELSE UNCHANGED <<items, queue, processing, user_queues, enq, served>>

complete_processing(user_id, success) ==
    IF processing # NoItem /\ items[processing].user_id = user_id
    THEN /\ items' = [items EXCEPT ![processing].status =
                         IF success THEN "completed" ELSE "error"]
         /\ user_queues' = [user_queues EXCEPT ![user_id] = NoItem]
         /\ processing' = NoItem
         /\ UNCHANGED <<queue, enq, served>>
    ELSE UNCHANGED <<items, queue, processing, user_queues, enq, served>>

----------------------------------------------------------------------------
\* Initial state: QueueManager.__init__, BotHandlers.__init__, no task yet

InitProgram ==
    /\ items = <<>>
    /\ queue = <<>>
    /\ processing = NoItem
    /\ user_queues = [u \in Users |-> NoItem]
    /\ enq = <<>>
    /\ served = <<>>
    /\ ret = [op |-> "none", user |-> 0, val |-> 0]
    /\ tick = 0
    /\ hpc = [u \in Users |-> "idle"]
    /\ hpos = [u \in Users |-> 0]
    /\ scheduled = 0
    /\ wpc = [w \in Tasks |-> "none"]
    /\ witem = [w \in Tasks |-> NoItem]
    /\ wfiles = [w \in Tasks |-> 0]
    /\ widx = [w \in Tasks |-> 0]
    /\ wcalls = [w \in Tasks |-> <<>>]
    /\ wraised = [w \in Tasks |-> "no"]
    /\ processing_lock = FALSE
    /\ disk = {}

\* no conversion is running
InitConvertIdle ==
    /\ original_total_frames = 0
    /\ cpc = "idle"
    /\ low = 0
    /\ high = 0
    /\ best_value = 0
    /\ best_size = 0
    /\ search_result = <<0, 0>>
    /\ final_frames = <<>>
    /\ final_quality = 0
    /\ current_size = 0
    /\ enc = <<>>
    /\ evaluations = 0

InitOptimizeIdle ==
    /\ opc = "idle"
    /\ quality = 0
    /\ tried = <<>>
    /\ image_size = 0
    /\ output = <<>>

\* no bundle is being built, no animation written, no name sanitized
InitRestIdle ==
    /\ bsearch = "idle"
    /\ deliver = "idle"
    /\ sched = "idle"

InitBundleIdle ==
    /\ InitRestIdle
    /\ pack = "idle"
    /\ chunk = "idle"
    /\ webp = "idle"
    /\ fname = "idle"

Init == InitProgram /\ InitConvertIdle /\ InitOptimizeIdle /\ InitBundleIdle

----------------------------------------------------------------------------
\* SpecQM: the QueueManager object driven by arbitrary callers

QM_add_to_queue ==
    \E u \in Users, r \in Positions :
        /\ add_to_queue(u, r)
        /\ ret' = [op |-> "add", user |-> u, val |-> r]
        /\ tick' = 1 - tick
        /\ UNCHANGED <<hvars, wvars>>
        /\ UNCHANGED fvars

QM_get_next_item ==
    \E r \in ItemRefs :
        /\ get_next_item(r)
        /\ ret' = [op |-> "next", user |-> 0, val |-> r]
        /\ tick' = 1 - tick
        /\ UNCHANGED <<hvars, wvars>>
        /\ UNCHANGED fvars

QM_complete_processing ==
    \E u \in Users, s \in BOOLEAN :
        /\ complete_processing(u, s)
        /\ ret' = [op |-> "complete", user |-> u, val |-> IF s THEN 1 ELSE 0]
        /\ tick' = 1 - tick
        /\ UNCHANGED <<hvars, wvars>>
        /\ UNCHANGED fvars

NextQM == QM_add_to_queue \/ QM_get_next_item \/ QM_complete_processing

SpecQM == Init /\ [][NextQM]_vars

----------------------------------------------------------------------------
\* BotHandlers.handle_message, one task per user, cut at its awaits:
\*   "idle"   no update of this user is being handled
\*   "check"  awaiting check_user_membership
\*   "reply"  awaiting a reply_text after which the handler returns
\*   "added"  awaiting the reply_text that follows add_to_queue

HM_Begin(u) ==
    /\ hpc[u] = "idle"
    /\ hpc' = [hpc EXCEPT ![u] = "check"]
    /\ UNCHANGED <<qvars, ovars, hpos, wvars>>
    /\ UNCHANGED fvars

HM_NotMember(u) ==
    /\ hpc[u] = "check"
    /\ hpc' = [hpc EXCEPT ![u] = "reply"]
    /\ UNCHANGED <<qvars, ovars, hpos, wvars>>
    /\ UNCHANGED fvars

HM_AlreadyInQueue(u) ==
    /\ hpc[u] = "check"
    /\ is_user_in_queue(u)
    /\ hpc' = [hpc EXCEPT ![u] = "reply"]
    /\ UNCHANGED <<qvars, ovars, hpos, wvars>>
    /\ UNCHANGED fvars

HM_Invalid(u) ==
    /\ hpc[u] = "check"
    /\ ~is_user_in_queue(u)
    /\ hpc' = [hpc EXCEPT ![u] = "reply"]
    /\ UNCHANGED <<qvars, ovars, hpos, wvars>>
    /\ UNCHANGED fvars

HM_Enqueue(u) ==
    /\ hpc[u] = "check"
    /\ ~is_user_in_queue(u)
    /\ \E position \in Positions :
          /\ add_to_queue(u, position)
          /\ hpos' = [hpos EXCEPT ![u] = position]
    /\ hpc' = [hpc EXCEPT ![u] = "added"]
    /\ UNCHANGED <<ovars, wvars>>
    /\ UNCHANGED fvars

HM_ReplyOther(u) ==
    /\ hpc[u] = "reply"
    /\ hpc' = [hpc EXCEPT ![u] = "idle"]
    /\ UNCHANGED <<qvars, ovars, hpos, wvars>>
    /\ UNCHANGED fvars

\* asyncio.create_task(self.process_queue())
create_task ==
    /\ scheduled < MaxJobs
    /\ scheduled' = scheduled + 1

\* reply_text returned: lines 214-216
HM_ReplyAdded(u) ==
    /\ hpc[u] = "added"
    /\ IF hpos[u] = 1 THEN create_task ELSE UNCHANGED scheduled
    /\ hpc' = [hpc EXCEPT ![u] = "idle"]
    /\ hpos' = [hpos EXCEPT ![u] = 0]
    /\ UNCHANGED <<qvars, ovars, wpc, witem, wfiles, widx, wcalls, wraised, processing_lock, disk>>
    /\ UNCHANGED fvars

\* reply_text raised: the handler ends at line 205
HM_ReplyAddedRaises(u) ==
    /\ hpc[u] = "added"
    /\ hpc' = [hpc EXCEPT ![u] = "idle"]
    /\ hpos' = [hpos EXCEPT ![u] = 0]
    /\ UNCHANGED <<qvars, ovars, wvars>>
    /\ UNCHANGED fvars

handle_message ==
    \E u \in Users :
        \/ HM_Begin(u)
        \/ HM_NotMember(u)
        \/ HM_AlreadyInQueue(u)
        \/ HM_Invalid(u)
        \/ HM_Enqueue(u)
        \/ HM_ReplyOther(u)
        \/ HM_ReplyAdded(u)
        \/ HM_ReplyAddedRaises(u)

----------------------------------------------------------------------------
\* BotHandlers.process_queue, cut at its awaits.  A task that has been created
\* and not yet entered processing_lock has no local state and is counted in
\* `scheduled`; on entering it takes the first free slot of wpc.
\*   "loop"         holds processing_lock, about to call get_next_item
\*   "notify"       lines 229-233     "get_set"      line 236
\*   "not_found"    lines 238-242     "details"      lines 261-268
\*   "convert"      lines 271-273     "success_msg"  lines 277-281
\*   "send_doc"     lines 288-292     "instructions" lines 298-305
\*   "fail_msg"     lines 309-317     "except"       lines 323-327

BodyPcs == {"notify", "get_set", "not_found", "details", "convert", "success_msg",
            "send_doc", "instructions", "fail_msg", "except"}

FreeTask == CHOOSE w \in Tasks : wpc[w] = "none" /\ \A v \in 1..(w-1) : wpc[v] # "none"

PQ_Acquire_nolock(w) ==
    /\ scheduled > 0
    /\ wpc[w] = "none" /\ w = FreeTask
    /\ scheduled' = scheduled - 1
    /\ processing_lock' = TRUE
    /\ wpc' = [wpc EXCEPT ![w] = "loop"]
    /\ UNCHANGED <<qvars, ovars, hvars, witem, wfiles, widx, wcalls, wraised, disk>>
    /\ UNCHANGED fvars

\* async with self.processing_lock
PQ_Acquire(w) ==
    /\ scheduled > 0
    /\ wpc[w] = "none" /\ w = FreeTask
    /\ ~processing_lock
    /\ scheduled' = scheduled - 1
    /\ processing_lock' = TRUE
    /\ wpc' = [wpc EXCEPT ![w] = "loop"]
    /\ UNCHANGED <<qvars, ovars, hvars, witem, wfiles, widx, wcalls, wraised, disk>>
    /\ UNCHANGED fvars

\* item = await queue_manager.get_next_item(); if not item: break
PQ_GetNext(w) ==
    /\ wpc[w] = "loop"
    /\ \E item \in ItemRefs :
          /\ get_next_item(item)
          /\ witem' = [witem EXCEPT ![w] = item]
          /\ IF item = NoItem
             THEN /\ wpc' = [wpc EXCEPT ![w] = "none"]
                  /\ processing_lock' = FALSE
             ELSE /\ wpc' = [wpc EXCEPT ![w] = "notify"]
                  /\ UNCHANGED processing_lock
    /\ wfiles' = [wfiles EXCEPT ![w] = 0]
    /\ widx' = [widx EXCEPT ![w] = 0]
    /\ wcalls' = [wcalls EXCEPT ![w] = <<>>]
    /\ wraised' = [wraised EXCEPT ![w] = "no"]
    /\ disk' = {}
    /\ UNCHANGED <<ovars, hvars, scheduled>>
    /\ UNCHANGED fvars

\* a statement of the try block raises: control goes to the except clause
Raise(w) ==
    /\ wpc' = [wpc EXCEPT ![w] = "except"]
    /\ wraised' = [wraised EXCEPT ![w] = wpc[w]]
    /\ UNCHANGED <<qvars, ovars, hvars, scheduled, witem, wfiles, widx, wcalls, processing_lock, disk>>
    /\ UNCHANGED fvars

\* the worker's call of complete_processing, after which it is back at `while True`
Complete(w, success) ==
    /\ complete_processing(items[witem[w]].user_id, success)
    /\ wcalls' = [wcalls EXCEPT ![w] =
                    Append(@, [user |-> items[witem[w]].user_id, success |-> success])]
    /\ wpc' = [wpc EXCEPT ![w] = "loop"]
    /\ UNCHANGED <<ovars, hvars, scheduled, witem, wfiles, widx, wraised, processing_lock, disk>>
    /\ UNCHANGED fvars

\* lines 229-233: the message text reads item.pack_name, which QueueItem lacks
\* (AttributeError), or send_message raises
PQ_NotifyStart(w) ==
    /\ wpc[w] = "notify"
    /\ "pack_name" \notin QueueItemFields
    /\ Raise(w)

PQ_Except_swallow(w) ==
    /\ wpc[w] = "except"
    /\ wpc' = [wpc EXCEPT ![w] = "loop"]
    /\ UNCHANGED <<qvars, ovars, hvars, scheduled, witem, wfiles, widx, wcalls, wraised,
                   processing_lock, disk>>
    /\ UNCHANGED fvars

PQ_Except_break(w) ==
    /\ wpc[w] = "except"
    /\ complete_processing(items[witem[w]].user_id, FALSE)
    /\ wcalls' = [wcalls EXCEPT ![w] =
                    Append(@, [user |-> items[witem[w]].user_id, success |-> FALSE])]
    /\ wpc' = [wpc EXCEPT ![w] = "none"]
    /\ processing_lock' = FALSE
    /\ UNCHANGED <<ovars, hvars, scheduled, witem, wfiles, widx, wraised, disk>>
    /\ UNCHANGED fvars

\* lines 320-330: send_message returns or raises (swallowed), then complete(False)
PQ_Except(w) ==
    /\ wpc[w] = "except"
    /\ Complete(w, FALSE)

process_queue ==
    \E w \in Tasks :
        \/ PQ_Acquire(w)
        \/ PQ_GetNext(w)
        \/ PQ_NotifyStart(w)
        \/ PQ_Except(w)

Next == handle_message \/ process_queue

Spec == Init /\ [][Next]_vars

----------------------------------------------------------------------------
\* The rest of process_queue's try block.  Every read of item.pack_name (lines
\* 231, 236, 240, 311) raises AttributeError in this code base, so Spec never
\* gets past PQ_NotifyStart.  SpecBody adds the step in which lines 229-233
\* complete, as they do once the attribute read yields the job's pack selector,
\* and with it the statements of lines 235-318.  Every behaviour of Spec is a
\* behaviour of SpecBody.

Advance(w, pc) ==
    /\ wpc' = [wpc EXCEPT ![w] = pc]
    /\ UNCHANGED <<qvars, ovars, hvars, scheduled, witem, wfiles, widx, wcalls, wraised,
                   processing_lock, disk>>
    /\ UNCHANGED fvars

\* lines 229-233: send_message returned
PQ_NotifyStartSent(w) ==
    /\ wpc[w] = "notify"
    /\ Advance(w, "get_set")

\* line 236: get_sticker_set catches every error and returns None
PQ_GetStickerSet(w) ==
    /\ wpc[w] = "get_set"
    /\ \E found \in BOOLEAN : Advance(w, IF found THEN "details" ELSE "not_found")

PQ_NotFound_success(w) ==
    /\ wpc[w] = "not_found"
    /\ Complete(w, TRUE)

\* lines 238-244
PQ_NotFound(w) ==
    /\ wpc[w] = "not_found"
    /\ \/ Complete(w, FALSE)
       \/ Raise(w)

\* lines 246-268
PQ_Details(w) ==
    /\ wpc[w] = "details"
    /\ \/ Advance(w, "convert")
       \/ Raise(w)

\* lines 271-275: create_wastickers_pack catches every error and returns a list
\* of n output files, which it has written to the output directory
PQ_Convert(w) ==
    /\ wpc[w] = "convert"
    /\ \E n \in 0..MaxBundles :
          /\ wfiles' = [wfiles EXCEPT ![w] = n]
          /\ disk' = 1..n
          /\ wpc' = [wpc EXCEPT ![w] = IF n > 0 THEN "success_msg" ELSE "fail_msg"]
    /\ UNCHANGED <<qvars, ovars, hvars, scheduled, witem, widx, wcalls, wraised,
                   processing_lock>>
    /\ UNCHANGED fvars

\* lines 277-281
PQ_SuccessMsg(w) ==
    /\ wpc[w] = "success_msg"
    /\ \/ Advance(w, "send_doc")
       \/ Raise(w)

\* lines 283-295, one file of the for loop (the file is where
\* create_wastickers_pack wrote it): send_document, then os.remove
PQ_SendDoc(w) ==
    /\ wpc[w] = "send_doc"
    /\ \/ /\ disk' = disk \ {widx[w] + 1}
          /\ widx' = [widx EXCEPT ![w] = @ + 1]
          /\ wpc' = [wpc EXCEPT ![w] =
                        IF widx[w] + 1 = wfiles[w] THEN "instructions" ELSE "send_doc"]
          /\ UNCHANGED <<qvars, ovars, hvars, scheduled, witem, wfiles, wcalls, wraised,
                         processing_lock>>
       \/ Raise(w)
    /\ UNCHANGED fvars

\* lines 298-307
PQ_Instructions(w) ==
    /\ wpc[w] = "instructions"
    /\ \/ Complete(w, TRUE)
       \/ Raise(w)

\* lines 309-318
PQ_FailMsg(w) ==
    /\ wpc[w] = "fail_msg"
    /\ \/ Complete(w, FALSE)
       \/ Raise(w)

process_queue_body ==
    \E w \in Tasks :
        \/ PQ_NotifyStartSent(w)
        \/ PQ_GetStickerSet(w)
        \/ PQ_NotFound(w)
        \/ PQ_Details(w)
        \/ PQ_Convert(w)
        \/ PQ_SuccessMsg(w)
        \/ PQ_SendDoc(w)
        \/ PQ_Instructions(w)
        \/ PQ_FailMsg(w)

NextBody == handle_message \/ process_queue \/ process_queue_body

SpecBody == Init /\ [][NextBody]_vars

----------------------------------------------------------------------------
\* VideoToWebPConverter.convert (src/video_to_webp.py), from the point where
\* all_frames holds the N >= 1 decoded frames.  A frame list is represented by
\* the list of the indices into all_frames it is made of.

MaxFrames == 62

SIZE_TARGET_RANGE == <<400 * 1024, 450 * 1024>>
MAX_FRAMES_CAP == 60
FRAME_PIVOT == MAX_FRAMES_CAP \div 2
quality_range_1 == <<40, 80>>
quality_range_2 == <<1, 40>>
\* the quality argument of convert_video_to_webp: self.quality
self_quality == 80
\* Python's None as the value a _binary_search returns
NoValue == 0
\* float('inf')
Infinity == SIZE_TARGET_RANGE[2] + 2

\* the byte sizes the encoder can return: the ends of the target window and
\* their outer neighbours
Sizes == {SIZE_TARGET_RANGE[1] - 1, SIZE_TARGET_RANGE[1],
          SIZE_TARGET_RANGE[2], SIZE_TARGET_RANGE[2] + 1}

min(a, b) == IF a <= b THEN a ELSE b

frame_range_1 ==
    IF original_total_frames > MAX_FRAMES_CAP
    THEN <<FRAME_PIVOT, MAX_FRAMES_CAP>>
    ELSE <<original_total_frames \div 2, original_total_frames>>

frame_range_2 ==
    IF original_total_frames > MAX_FRAMES_CAP
    THEN <<1, FRAME_PIVOT>>
    ELSE <<1, original_total_frames \div 2>>

fallback_frame_count ==
    IF original_total_frames > MAX_FRAMES_CAP
    THEN FRAME_PIVOT
    ELSE original_total_frames \div 2

\* select_frames(all_frames, count) divides by count - 1
select_frames_raises(count) ==
    /\ count > 0
    /\ count < original_total_frames
    /\ count - 1 = 0

\* select_frames(all_frames, count), where it does not raise
select_frames(count) ==
    IF count <= 0 THEN <<>>
    ELSE IF count >= original_total_frames
    THEN [i \in 1..original_total_frames |-> i - 1]
    ELSE [i \in 1..count |-> ((i - 1) * (original_total_frames - 1)) \div (count - 1)]

\* the iterations of a binary search over n values that halves its range
RECURSIVE SearchSteps(_)
SearchSteps(n) == IF n <= 0 THEN 0 ELSE 1 + SearchSteps(n \div 2)

RangeSize(range) == IF range[1] > range[2] THEN 0 ELSE range[2] - range[1] + 1

\* the encodings of a conversion whose every search halves its range: Stage A,
\* the four searches and the re-encoding of the last resort
EvalBound ==
    1 + SearchSteps(RangeSize(frame_range_1)) + SearchSteps(RangeSize(quality_range_1))
      + SearchSteps(RangeSize(frame_range_2)) + SearchSteps(RangeSize(quality_range_2)) + 1

\* one more call of the encoder or of an evaluator; the count stops just above
\* EvalBound
Evaluated ==
    evaluations' = IF evaluations > EvalBound THEN evaluations ELSE evaluations + 1

\* _save_webp_to_buffer(frames, quality, fps) returns s.  The encoder is a
\* function of the frames and the quality: what it returned once it returns again.
save_webp_to_buffer(nframes, q, s) ==
    IF nframes = 0
    THEN /\ s = Infinity
         /\ UNCHANGED enc
    ELSE /\ s \in Sizes
         /\ <<nframes, q>> \in DOMAIN enc => s = enc[<<nframes, q>>]
         /\ enc' = [k \in DOMAIN enc \cup {<<nframes, q>>} |->
                       IF k = <<nframes, q>> THEN s ELSE enc[k]]

eval_frames(num_frames, s) ==
    save_webp_to_buffer(Len(select_frames(num_frames)), final_quality, s)

eval_quality(q, s) ==
    save_webp_to_buffer(Len(final_frames), q, s)

\* the first statements of _binary_search
binary_search_enter(search_space) ==
    /\ low' = search_space[1]
    /\ high' = search_space[2]
    /\ best_value' = NoValue
    /\ best_size' = Infinity

SearchStages == {"B", "C", "D", "E"}
Returned(stage) == [B |-> "B_ret", C |-> "C_ret", D |-> "D_ret", E |-> "E_ret"][stage]

convert_initial_window ==
    /\ cpc = "A"
    /\ final_frames' = select_frames(min(original_total_frames, MAX_FRAMES_CAP))
    /\ \E s \in Sizes \cup {Infinity} :
          /\ save_webp_to_buffer(Len(final_frames'), final_quality, s)
          /\ current_size' = s
          /\ IF SIZE_TARGET_RANGE[1] <= s /\ s <= SIZE_TARGET_RANGE[2]
             THEN /\ cpc' = "save"
                  /\ UNCHANGED svars
             ELSE /\ cpc' = "B"
                  /\ binary_search_enter(frame_range_1)
    /\ Evaluated
    /\ UNCHANGED <<original_total_frames, search_result, final_quality>>
    /\ UNCHANGED <<pvars, ivars>>

\* Stage A
convert_initial ==
    /\ cpc = "A"
    /\ final_frames' = select_frames(min(original_total_frames, MAX_FRAMES_CAP))
    /\ \E s \in Sizes \cup {Infinity} :
          /\ save_webp_to_buffer(Len(final_frames'), final_quality, s)
          /\ current_size' = s
          /\ IF s <= SIZE_TARGET_RANGE[2]
             THEN /\ cpc' = "save"
                  /\ UNCHANGED svars
             ELSE /\ cpc' = "B"
                  /\ binary_search_enter(frame_range_1)
    /\ Evaluated
    /\ UNCHANGED <<original_total_frames, search_result, final_quality>>
    /\ UNCHANGED <<pvars, ivars>>

\* one iteration of the while loop of _binary_search
binary_search_iter ==
    /\ cpc \in SearchStages
    /\ low <= high
    /\ LET half == (low + high) \div 2
           mid == IF half = 0 THEN 1 ELSE half
       IN  IF cpc \in {"B", "D"} /\ select_frames_raises(mid)
           THEN /\ cpc' = "raised"
                /\ UNCHANGED <<svars, search_result, enc>>
           ELSE \E s \in Sizes \cup {Infinity} :
                   /\ IF cpc \in {"B", "D"} THEN eval_frames(mid, s) ELSE eval_quality(mid, s)
                   /\ IF SIZE_TARGET_RANGE[1] <= s /\ s <= SIZE_TARGET_RANGE[2]
                      THEN /\ search_result' = <<mid, s>>
                           /\ cpc' = Returned(cpc)
                           /\ UNCHANGED svars
                      ELSE IF s < SIZE_TARGET_RANGE[1]
                      THEN /\ best_value' = mid
                           /\ best_size' = s
                           /\ low' = mid + 1
                           /\ UNCHANGED <<high, search_result, cpc>>
                      ELSE /\ high' = mid - 1
                           /\ UNCHANGED <<low, best_value, best_size, search_result, cpc>>
    /\ Evaluated
    /\ UNCHANGED <<original_total_frames, final_frames, final_quality, current_size>>
    /\ UNCHANGED <<pvars, ivars>>

\* _binary_search returns without a hit: at once for an empty search space,
\* else after the loop
binary_search_exit ==
    /\ cpc \in SearchStages
    /\ low > high
    /\ search_result' = IF best_value # NoValue /\ best_size <= SIZE_TARGET_RANGE[2]
                        THEN <<best_value, best_size>>
                        ELSE <<NoValue, NoValue>>
    /\ cpc' = Returned(cpc)
    /\ UNCHANGED <<original_total_frames, svars, final_frames, final_quality,
                   current_size, enc, evaluations>>
    /\ UNCHANGED <<pvars, ivars>>

convert_after_B_on ==
    /\ cpc = "B_ret"
    /\ IF select_frames_raises(fallback_frame_count)
       THEN /\ cpc' = "raised"
            /\ UNCHANGED <<svars, final_frames, current_size>>
       ELSE /\ final_frames' = select_frames(fallback_frame_count)
            /\ binary_search_enter(quality_range_1)
            /\ cpc' = "C"
            /\ UNCHANGED current_size
    /\ UNCHANGED <<original_total_frames, search_result, final_quality, enc, evaluations>>
    /\ UNCHANGED <<pvars, ivars>>

\* Stage B has returned best_f, best_s
convert_after_B ==
    /\ cpc = "B_ret"
    /\ IF search_result[1] # NoValue
       THEN /\ final_frames' = select_frames(search_result[1])
            /\ current_size' = search_result[2]
            /\ cpc' = "save"
            /\ UNCHANGED svars
       ELSE IF select_frames_raises(fallback_frame_count)
       THEN /\ cpc' = "raised"
            /\ UNCHANGED <<svars, final_frames, current_size>>
       ELSE /\ final_frames' = select_frames(fallback_frame_count)
            /\ binary_search_enter(quality_range_1)
            /\ cpc' = "C"
            /\ UNCHANGED current_size
    /\ UNCHANGED <<original_total_frames, search_result, final_quality, enc, evaluations>>
    /\ UNCHANGED <<pvars, ivars>>

\* Stage C has returned best_q, best_s
convert_after_C ==
    /\ cpc = "C_ret"
    /\ IF search_result[1] # NoValue
       THEN /\ final_quality' = search_result[1]
            /\ current_size' = search_result[2]
            /\ cpc' = "save"
            /\ UNCHANGED svars
       ELSE /\ final_quality' = 40
            /\ binary_search_enter(frame_range_2)
            /\ cpc' = "D"
            /\ UNCHANGED current_size
    /\ UNCHANGED <<original_total_frames, search_result, final_frames, enc, evaluations>>
    /\ UNCHANGED <<pvars, ivars>>

\* Stage D has returned best_f, best_s
convert_after_D ==
    /\ cpc = "D_ret"
    /\ IF search_result[1] # NoValue
       THEN /\ final_frames' = select_frames(search_result[1])
            /\ current_size' = search_result[2]
            /\ cpc' = "save"
            /\ UNCHANGED <<svars, final_quality>>
       ELSE IF select_frames_raises(1)
       THEN /\ cpc' = "raised"
            /\ UNCHANGED <<svars, final_frames, final_quality, current_size>>
       ELSE /\ final_frames' = select_frames(1)
            /\ final_quality' = 40
            /\ binary_search_enter(quality_range_2)
            /\ cpc' = "E"
            /\ UNCHANGED current_size
    /\ UNCHANGED <<original_total_frames, search_result, enc, evaluations>>
    /\ UNCHANGED <<pvars, ivars>>

\* Stage E has returned best_q, best_s: the last resort is encoded once more.
\* No conversion gets here (with one frame Stage B does not return, with more
\* select_frames(all_frames, 1) raises), so NextConvert has no such step.
convert_after_E ==
    /\ cpc = "E_ret"
    /\ final_quality' = IF search_result[1] # NoValue THEN search_result[1] ELSE 1
    /\ \E s \in Sizes \cup {Infinity} :
          /\ save_webp_to_buffer(Len(final_frames), final_quality', s)
          /\ current_size' = s
    /\ Evaluated
    /\ cpc' = "save"
    /\ UNCHANGED <<original_total_frames, svars, search_result, final_frames>>
    /\ UNCHANGED <<pvars, ivars>>

\* Stage 3: the final save; convert returns True or raises IOError
convert_final_save ==
    /\ cpc = "save"
    /\ cpc' = IF final_frames = <<>> THEN "raised" ELSE "returned"
    /\ UNCHANGED <<original_total_frames, svars, search_result, final_frames,
                   final_quality, current_size, enc, evaluations>>
    /\ UNCHANGED <<pvars, ivars>>

InitConvert ==
    /\ InitProgram
    /\ InitOptimizeIdle
    /\ InitBundleIdle
    /\ original_total_frames \in 1..MaxFrames
    /\ cpc = "A"
    /\ low = 0
    /\ high = 0
    /\ best_value = NoValue
    /\ best_size = Infinity
    /\ search_result = <<NoValue, NoValue>>
    /\ final_frames = <<>>
    /\ final_quality = self_quality
    /\ current_size = 0
    /\ enc = <<>>
    /\ evaluations = 0

NextConvert ==
    \/ convert_initial
    \/ binary_search_iter
    \/ binary_search_exit
    \/ convert_after_B
    \/ convert_after_C
    \/ convert_after_D
    \/ convert_final_save

SpecConvert == InitConvert /\ [][NextConvert]_vars

----------------------------------------------------------------------------
\* optimize_image_size (src/utils.py) as _create_single_wastickers_pack calls
\* it on the file _convert_image_to_webp wrote with quality=80

MAX_STICKER_SIZE_STATIC == 100 * 1024
\* range(95, 10, -5): start, stop, step
quality_levels == <<95, 10, -5>>
\* the quality of the encoding made after the loop
minimal_quality == 10

\* the byte sizes a file or an encoding can have: the ceiling and its neighbours
StaticSizes == {MAX_STICKER_SIZE_STATIC - 1, MAX_STICKER_SIZE_STATIC,
                MAX_STICKER_SIZE_STATIC + 1}

\* sticker_converter.py lines 302-305 and utils.py lines 37-44: the call, up to
\* the first value of the for loop
optimize_image_size_call_lower ==
    /\ opc = "called"
    /\ quality' = quality_levels[1] + quality_levels[3]
    /\ opc' = "loop"
    /\ UNCHANGED <<tried, image_size, output>>
    /\ UNCHANGED <<pvars, cvars>>

optimize_image_size_call ==
    /\ opc = "called"
    /\ quality' = quality_levels[1]
    /\ opc' = "loop"
    /\ UNCHANGED <<tried, image_size, output>>
    /\ UNCHANGED <<pvars, cvars>>

optimize_try_strict ==
    /\ opc = "loop"
    /\ quality > quality_levels[2]
    /\ \E s \in StaticSizes :
          /\ tried' = Append(tried, <<quality, s>>)
          /\ IF s < MAX_STICKER_SIZE_STATIC
             THEN /\ output' = <<quality, s>>
                  /\ opc' = "returned"
                  /\ UNCHANGED quality
             ELSE /\ quality' = quality + quality_levels[3]
                  /\ UNCHANGED <<output, opc>>
    /\ UNCHANGED image_size
    /\ UNCHANGED <<pvars, cvars>>

\* lines 47-52: one pass of the for loop
optimize_try ==
    /\ opc = "loop"
    /\ quality > quality_levels[2]
    /\ \E s \in StaticSizes :
          /\ tried' = Append(tried, <<quality, s>>)
          /\ IF s <= MAX_STICKER_SIZE_STATIC
             THEN /\ output' = <<quality, s>>
                  /\ opc' = "returned"
                  /\ UNCHANGED quality
             ELSE /\ quality' = quality + quality_levels[3]
                  /\ UNCHANGED <<output, opc>>
    /\ UNCHANGED image_size
    /\ UNCHANGED <<pvars, cvars>>

\* lines 54-57: the loop is exhausted
optimize_minimal ==
    /\ opc = "loop"
    /\ quality <= quality_levels[2]
    /\ \E s \in StaticSizes :
          /\ tried' = Append(tried, <<minimal_quality, s>>)
          /\ output' = <<minimal_quality, s>>
    /\ opc' = "returned"
    /\ UNCHANGED <<quality, image_size>>
    /\ UNCHANGED <<pvars, cvars>>

InitOptimize ==
    /\ InitProgram
    /\ InitConvertIdle
    /\ InitBundleIdle
    /\ opc = "called"
    /\ quality = 0
    /\ tried = <<>>
    /\ image_size \in StaticSizes
    /\ output = <<>>

NextOptimize == optimize_image_size_call \/ optimize_try \/ optimize_minimal

SpecOptimize == InitOptimize /\ [][NextOptimize]_vars

----------------------------------------------------------------------------
\* StickerConverter.create_wastickers_pack (src/sticker_converter.py:227-273),
\* one call on a set of total_stickers items.  A chunk is recorded by its
\* slice [start_idx, end_idx), the number appended to its title (0: none) and
\* what _create_single_wastickers_pack did with it.

MaxStickers == 75
MAX_STICKERS_PER_PACK == 30

num_packs_floor(total_stickers) == total_stickers \div MAX_STICKERS_PER_PACK

num_packs(total_stickers) ==
    (total_stickers + MAX_STICKERS_PER_PACK - 1) \div MAX_STICKERS_PER_PACK

create_temp_directory(p) == [p EXCEPT !.temp_dir = TRUE]

cleanup_temp_directory_keep(p) ==
    IF \E k \in 1..Len(p.chunks) : p.chunks[k].outcome = "raised"
    THEN p
    ELSE [p EXCEPT !.temp_dir = FALSE]

cleanup_temp_directory(p) == [p EXCEPT !.temp_dir = FALSE]

\* the slice and title of chunk p.pack_idx, with the outcome of building it
pack_stickers(p, outcome) ==
    [start_idx |-> p.pack_idx * MAX_STICKERS_PER_PACK,
     end_idx   |-> min(p.pack_idx * MAX_STICKERS_PER_PACK + MAX_STICKERS_PER_PACK,
                       p.total_stickers),
     suffix    |-> IF p.num_packs > 1 THEN p.pack_idx + 1 ELSE 0,
     outcome   |-> outcome]

\* lines 229-242: the directory is made, the number of chunks computed
create_wastickers_pack_enter ==
    /\ pack.pc = "called"
    /\ pack' = [create_temp_directory(pack) EXCEPT
                    !.pc = "loop",
                    !.num_packs = num_packs(pack.total_stickers),
                    !.pack_idx = 0]
    /\ UNCHANGED <<xvars, chunk, webp, fname>>

\* lines 244-265: one chunk is sliced, titled and built; a bundle file that
\* comes back is appended, None is passed over
create_wastickers_pack_chunk ==
    /\ pack.pc = "loop"
    /\ pack.pack_idx < pack.num_packs
    /\ \E outcome \in {"file", "none"} :
        pack' = [pack EXCEPT
                    !.chunks = Append(@, pack_stickers(pack, outcome)),
                    !.wastickers_files = IF outcome = "file"
                                         THEN Append(@, pack.pack_idx + 1)
                                         ELSE @,
                    !.pack_idx = @ + 1]
    /\ UNCHANGED <<xvars, chunk, webp, fname>>

\* lines 278-279 stand before the try of _create_single_wastickers_pack: an
\* OSError of os.makedirs leaves that function and the loop of its caller
create_wastickers_pack_chunk_raises ==
    /\ pack.pc = "loop"
    /\ pack.pack_idx < pack.num_packs
    /\ pack' = [pack EXCEPT
                    !.chunks = Append(@, pack_stickers(pack, "raised")),
                    !.pc = "except"]
    /\ UNCHANGED <<xvars, chunk, webp, fname>>

\* line 268
create_wastickers_pack_return ==
    /\ pack.pc = "loop"
    /\ pack.pack_idx = pack.num_packs
    /\ pack' = [pack EXCEPT !.returned = pack.wastickers_files, !.pc = "finally"]
    /\ UNCHANGED <<xvars, chunk, webp, fname>>

\* lines 270-272
create_wastickers_pack_except ==
    /\ pack.pc = "except"
    /\ pack' = [pack EXCEPT !.returned = <<>>, !.pc = "finally"]
    /\ UNCHANGED <<xvars, chunk, webp, fname>>

\* line 273, on the way out of either return
create_wastickers_pack_finally ==
    /\ pack.pc = "finally"
    /\ pack' = [cleanup_temp_directory(pack) EXCEPT !.pc = "done"]
    /\ UNCHANGED <<xvars, chunk, webp, fname>>

InitPack ==
    /\ InitProgram
    /\ InitConvertIdle
    /\ InitOptimizeIdle
    /\ InitRestIdle
    /\ chunk = "idle"
    /\ webp = "idle"
    /\ fname = "idle"
    /\ \E n \in 0..MaxStickers :
        pack = [pc |-> "called", total_stickers |-> n, num_packs |-> 0,
                pack_idx |-> 0, chunks |-> <<>>, wastickers_files |-> <<>>,
                temp_dir |-> FALSE, returned |-> <<>>]

NextPack ==
    \/ create_wastickers_pack_enter
    \/ create_wastickers_pack_chunk
    \/ create_wastickers_pack_chunk_raises
    \/ create_wastickers_pack_return
    \/ create_wastickers_pack_except
    \/ create_wastickers_pack_finally

SpecPack == InitPack /\ [][NextPack]_vars

----------------------------------------------------------------------------
\* StickerConverter._create_single_wastickers_pack (src/sticker_converter.py:
\* 275-343), one call on a chunk of n_items stickers.  A file of the chunk
\* directory is a record [kind, n]: "webp" with the number in its name,
\* "icon", "author" and "title" with n = 0.

MaxChunkItems == 3

File(kind, n) == [kind |-> kind, n |-> n]

\* line 295: the name is made from the index of the sticker in the chunk
webp_path(i) == File("webp", i + 1)

single_pack_download_fails_abort ==
    /\ chunk.pc = "loop"
    /\ chunk.i < chunk.n_items
    /\ chunk' = [chunk EXCEPT !.attempted = Append(@, "download_failed"),
                              !.result = "none",
                              !.pc = "done"]
    /\ UNCHANGED <<xvars, pack, webp, fname>>

\* lines 286-288: download_sticker returned None (it catches every exception)
single_pack_download_fails ==
    /\ chunk.pc = "loop"
    /\ chunk.i < chunk.n_items
    /\ chunk' = [chunk EXCEPT !.attempted = Append(@, "download_failed"),
                              !.i = @ + 1]
    /\ UNCHANGED <<xvars, pack, webp, fname>>

\* lines 286-322 with convert_to_webp returning False (it catches every
\* exception): nothing is appended, the downloaded file is removed
single_pack_convert_fails ==
    /\ chunk.pc = "loop"
    /\ chunk.i < chunk.n_items
    /\ chunk' = [chunk EXCEPT !.attempted = Append(@, "convert_failed"),
                              !.i = @ + 1]
    /\ UNCHANGED <<xvars, pack, webp, fname>>

\* lines 286-322 with convert_to_webp returning True
single_pack_converted ==
    /\ chunk.pc = "loop"
    /\ chunk.i < chunk.n_items
    /\ chunk' = [chunk EXCEPT !.attempted = Append(@, "converted"),
                              !.pack_temp_dir = @ \cup {webp_path(chunk.i)},
                              !.converted_stickers = Append(@, webp_path(chunk.i)),
                              !.i = @ + 1]
    /\ UNCHANGED <<xvars, pack, webp, fname>>

\* lines 324-326
single_pack_none_converted ==
    /\ chunk.pc = "loop"
    /\ chunk.i = chunk.n_items
    /\ chunk.converted_stickers = <<>>
    /\ chunk' = [chunk EXCEPT !.result = "none", !.pc = "done"]
    /\ UNCHANGED <<xvars, pack, webp, fname>>

\* lines 329-330 and _create_icon (345-369): the icon is written, or an
\* exception is logged and nothing is written
single_pack_icon ==
    /\ chunk.pc = "loop"
    /\ chunk.i = chunk.n_items
    /\ chunk.converted_stickers # <<>>
    /\ \E ok \in BOOLEAN :
        chunk' = [chunk EXCEPT !.pack_temp_dir = IF ok THEN @ \cup {File("icon", 0)} ELSE @,
                               !.pc = "metadata"]
    /\ UNCHANGED <<xvars, pack, webp, fname>>

\* line 333 and _create_metadata_files (371-386): author.txt, then title.txt;
\* an exception at either is logged and ends the function
single_pack_metadata ==
    /\ chunk.pc = "metadata"
    /\ \E written \in {{}, {File("author", 0)}, {File("author", 0), File("title", 0)}} :
        chunk' = [chunk EXCEPT !.pack_temp_dir = @ \cup written,
                               !.pc = "archive"]
    /\ UNCHANGED <<xvars, pack, webp, fname>>

\* lines 336-339 and _create_wastickers_archive (388-398): every file of
\* the chunk directory goes into the archive
single_pack_archive ==
    /\ chunk.pc = "archive"
    /\ chunk' = [chunk EXCEPT !.archive = chunk.pack_temp_dir,
                              !.output_file = TRUE,
                              !.result = "file",
                              !.pc = "done"]
    /\ UNCHANGED <<xvars, pack, webp, fname>>

\* lines 399-400 and 341-343: writing the archive raises, the exception is
\* raised again and the function returns None; what was written of the
\* output file may be left behind
single_pack_archive_raises ==
    /\ chunk.pc = "archive"
    /\ \E left \in BOOLEAN :
        chunk' = [chunk EXCEPT !.output_file = left,
                               !.raised = TRUE,
                               !.result = "none",
                               !.pc = "done"]
    /\ UNCHANGED <<xvars, pack, webp, fname>>

InitChunk ==
    /\ InitProgram
    /\ InitConvertIdle
    /\ InitOptimizeIdle
    /\ InitRestIdle
    /\ pack = "idle"
    /\ webp = "idle"
    /\ fname = "idle"
    /\ \E n \in 1..MaxChunkItems :
        chunk = [pc |-> "loop", n_items |-> n, i |-> 0, attempted |-> <<>>,
                 converted_stickers |-> <<>>, pack_temp_dir |-> {},
                 archive |-> {}, output_file |-> FALSE, raised |-> FALSE,
                 result |-> "pending"]

NextChunk ==
    \/ single_pack_download_fails
    \/ single_pack_convert_fails
    \/ single_pack_converted
    \/ single_pack_none_converted
    \/ single_pack_icon
    \/ single_pack_metadata
    \/ single_pack_archive
    \/ single_pack_archive_raises

SpecChunk == InitChunk /\ [][NextChunk]_vars

----------------------------------------------------------------------------
\* The timing of the animation convert writes (src/video_to_webp.py:110,
\* 271-287): a clip of total_frames frames at original_fps frames a second,
\* of which k are kept.  original_duration = total_frames / original_fps, so
\* int(1000 / (k / original_duration)) is the integer part of
\* 1000 * total_frames / (k * original_fps), computed here on the integers.

FrameRates == {24, 25, 30, 60}

frame_duration(k, total_frames, original_fps) ==
    (1000 * total_frames) \div (k * original_fps)

\* lines 271-287: every one of the k frames is written with frame_duration
final_save ==
    /\ webp.pc = "final"
    /\ webp' = [webp EXCEPT
                    !.frame_duration = frame_duration(webp.k, webp.total_frames,
                                                      webp.original_fps),
                    !.pc = "saved"]
    /\ UNCHANGED <<xvars, pack, chunk, fname>>

InitTiming ==
    /\ InitProgram
    /\ InitConvertIdle
    /\ InitOptimizeIdle
    /\ InitRestIdle
    /\ pack = "idle"
    /\ chunk = "idle"
    /\ fname = "idle"
    /\ \E n \in 1..MaxFrames, r \in FrameRates :
        \E k \in 1..min(n, MAX_FRAMES_CAP) :
            webp = [pc |-> "final", total_frames |-> n, original_fps |-> r,
                    k |-> k, frame_duration |-> 0]

NextTiming == final_save

SpecTiming == InitTiming /\ [][NextTiming]_vars

----------------------------------------------------------------------------
\* sanitize_filename (src/utils.py:69-79).  A string is the sequence of its
\* characters.  The arguments are an optional first character, a run of one
\* character and an optional last character, over an alphabet with a letter,
\* the two characters strip(' .') removes, a tab, and two of the characters
\* the regular expression replaces.

MaxFill == 52
MaxNameLength == 50

Chars == {"a", " ", ".", "\t", "/", "*"}
Affixes == {<<>>} \cup {<<c>> : c \in Chars}
Filenames ==
    {pre \o [i \in 1..m |-> c] \o suf : pre \in Affixes, suf \in Affixes,
                                         c \in Chars, m \in 0..MaxFill}

\* the class [<>:"/\\|?*] of line 72
InvalidChars == {"<", ">", ":", "\"", "/", "\\", "|", "?", "*"}
\* line 79
DefaultName == <<"s", "t", "i", "c", "k", "e", "r", "_", "p", "a", "c", "k">>

\* re.sub(r'[<>:"/\\|?*]', '_', filename)
re_sub(filename) ==
    [i \in 1..Len(filename) |-> IF filename[i] \in InvalidChars THEN "_" ELSE filename[i]]

\* filename.strip(' .')
strip(filename) ==
    LET kept == {i \in 1..Len(filename) : filename[i] \notin {" ", "."}}
    IN  IF kept = {}
        THEN <<>>
        ELSE LET first == CHOOSE i \in kept : \A j \in kept : i <= j
                 last  == CHOOSE i \in kept : \A j \in kept : j <= i
             IN  SubSeq(filename, first, last)

\* filename[:50] when len(filename) > 50
truncate(filename) ==
    IF Len(filename) > MaxNameLength THEN SubSeq(filename, 1, MaxNameLength) ELSE filename

\* line 72
sanitize_sub ==
    /\ fname.pc = "called"
    /\ fname' = [fname EXCEPT !.filename = re_sub(@), !.pc = "strip"]
    /\ UNCHANGED <<xvars, pack, chunk, webp>>

\* line 74
sanitize_strip ==
    /\ fname.pc = "strip"
    /\ fname' = [fname EXCEPT !.filename = strip(@), !.pc = "limit"]
    /\ UNCHANGED <<xvars, pack, chunk, webp>>

\* lines 76-77
sanitize_limit ==
    /\ fname.pc = "limit"
    /\ fname' = [fname EXCEPT !.filename = truncate(@), !.pc = "return"]
    /\ UNCHANGED <<xvars, pack, chunk, webp>>

\* line 79: return filename or "sticker_pack"
sanitize_return ==
    /\ fname.pc = "return"
    /\ fname' = [fname EXCEPT
                    !.result = IF fname.filename = <<>> THEN DefaultName ELSE fname.filename,
                    !.pc = "done"]
    /\ UNCHANGED <<xvars, pack, chunk, webp>>

InitSanitize ==
    /\ InitProgram
    /\ InitConvertIdle
    /\ InitOptimizeIdle
    /\ InitRestIdle
    /\ pack = "idle"
    /\ chunk = "idle"
    /\ webp = "idle"
    /\ \E s \in Filenames :
        fname = [pc |-> "called", input |-> s, filename |-> s, result |-> <<>>]

NextSanitize == sanitize_sub \/ sanitize_strip \/ sanitize_limit \/ sanitize_return

SpecSanitize == InitSanitize /\ [][NextSanitize]_vars

----------------------------------------------------------------------------
\* VideoToWebPConverter._binary_search (src/video_to_webp.py:58-91) on its
\* own: one call with target_range = SIZE_TARGET_RANGE, a search space
\* (low, high) and an evaluator, which is a function from the values it can be
\* asked about to byte sizes.  evaluated lists the values the evaluator was
\* called with; it is not extended beyond EvaluatedCap entries.

MaxSearch == 4

SearchSizes == Sizes \cup {SIZE_TARGET_RANGE[1] - 2}
SearchSpaces == (0..MaxSearch) \X (0..MaxSearch)
Evaluators == [1..MaxSearch -> SearchSizes]
EvaluatedCap == MaxSearch + 1

\* lines 73-75: mid = (low + high) // 2; if mid == 0: mid = 1
bs_mid(b) ==
    IF (b.low + b.high) \div 2 = 0 THEN 1 ELSE (b.low + b.high) \div 2

bs_update_first(b, mid, size) ==
    IF SIZE_TARGET_RANGE[1] <= size /\ size <= SIZE_TARGET_RANGE[2]
    THEN [b EXCEPT !.result = <<mid, size>>, !.pc = "returned"]
    ELSE IF size < SIZE_TARGET_RANGE[1]
    THEN [b EXCEPT !.best_value = IF @ = NoValue THEN mid ELSE @,
                   !.best_size = IF b.best_value = NoValue THEN size ELSE @,
                   !.low = mid + 1]
    ELSE [b EXCEPT !.high = mid - 1]

bs_update_nohit(b, mid, size) ==
    IF size < SIZE_TARGET_RANGE[1]
    THEN [b EXCEPT !.best_value = mid, !.best_size = size, !.low = mid + 1]
    ELSE [b EXCEPT !.high = mid - 1]

bs_update_down(b, mid, size) ==
    IF SIZE_TARGET_RANGE[1] <= size /\ size <= SIZE_TARGET_RANGE[2]
    THEN [b EXCEPT !.result = <<mid, size>>, !.pc = "returned"]
    ELSE IF size < SIZE_TARGET_RANGE[1]
    THEN [b EXCEPT !.best_value = mid, !.best_size = size, !.high = mid - 1]
    ELSE [b EXCEPT !.low = mid + 1]

\* lines 79-86: the three branches on current_size
bs_update(b, mid, size) ==
    IF SIZE_TARGET_RANGE[1] <= size /\ size <= SIZE_TARGET_RANGE[2]
    THEN [b EXCEPT !.result = <<mid, size>>, !.pc = "returned"]
    ELSE IF size < SIZE_TARGET_RANGE[1]
    THEN [b EXCEPT !.best_value = mid, !.best_size = size, !.low = mid + 1]
    ELSE [b EXCEPT !.high = mid - 1]

\* lines 64-70: the locals are set; an empty search space returns at once
bs_enter ==
    /\ bsearch.pc = "called"
    /\ bsearch' = [bsearch EXCEPT
                      !.low = bsearch.search_space[1],
                      !.high = bsearch.search_space[2],
                      !.best_value = NoValue,
                      !.best_size = Infinity,
                      !.pc = IF bsearch.search_space[1] > bsearch.search_space[2]
                             THEN "returned" ELSE "loop"]
    /\ UNCHANGED <<zvars, deliver, sched>>

\* lines 72-86: one iteration of the while loop
bs_iter ==
    /\ bsearch.pc = "loop"
    /\ bsearch.low <= bsearch.high
    /\ LET mid == bs_mid(bsearch)
           size == bsearch.evaluator[mid]
           called == [bsearch EXCEPT
                         !.evaluated = IF Len(@) < EvaluatedCap THEN Append(@, mid) ELSE @]
       IN  bsearch' = bs_update(called, mid, size)
    /\ UNCHANGED <<zvars, deliver, sched>>

\* lines 88-91: the loop is over without a hit
bs_exit ==
    /\ bsearch.pc = "loop"
    /\ bsearch.low > bsearch.high
    /\ bsearch' = [bsearch EXCEPT
                      !.result = IF /\ bsearch.best_value # NoValue
                                    /\ bsearch.best_size <= SIZE_TARGET_RANGE[2]
                                 THEN <<bsearch.best_value, bsearch.best_size>>
                                 ELSE <<NoValue, NoValue>>,
                      !.pc = "returned"]
    /\ UNCHANGED <<zvars, deliver, sched>>

InitSearch ==
    /\ InitProgram
    /\ InitConvertIdle
    /\ InitOptimizeIdle
    /\ pack = "idle"
    /\ chunk = "idle"
    /\ webp = "idle"
    /\ fname = "idle"
    /\ deliver = "idle"
    /\ sched = "idle"
    /\ \E space \in SearchSpaces, f \in Evaluators :
        bsearch = [pc |-> "called", search_space |-> space, evaluator |-> f,
                   low |-> 0, high |-> 0, best_value |-> NoValue,
                   best_size |-> Infinity, evaluated |-> <<>>,
                   result |-> <<NoValue, NoValue>>]

NextSearch == bs_enter \/ bs_iter \/ bs_exit

SpecSearch == InitSearch /\ [][NextSearch]_vars

----------------------------------------------------------------------------
\* The output files of one job from the chunk loop of create_wastickers_pack
\* (src/sticker_converter.py:244-265, 335-339) to the send loop of
\* process_queue (src/bot_handlers.py:283-295), for a set whose title is a
\* run of letters and whose num_packs > 1 chunks all yield a bundle and for
\* which every send_document returns.  A file of OUTPUT_DIR is a record of its
\* name (without the extension, which is the same for all) and of the chunk
\* whose bundle it holds.

MaxTitle == 52
MaxPacks == 3

\* str(pack_idx + 1)
Digit == <<"1", "2", "3", "4", "5", "6", "7", "8", "9">>

\* src/utils.py:69-79 in one
sanitize_filename(filename) ==
    IF truncate(strip(re_sub(filename))) = <<>>
    THEN DefaultName
    ELSE truncate(strip(re_sub(filename)))

\* lines 257-258 and 336: the title gets " {pack_idx + 1}", the file its name
output_file(title, pack_idx) ==
    sanitize_filename(title \o <<" ", Digit[pack_idx + 1]>>)

\* one chunk: the archive is written to output_file, replacing a file of that
\* name, and the name is appended to wastickers_files
deliver_build ==
    /\ deliver.pc = "build"
    /\ LET name == output_file(deliver.title, deliver.pack_idx)
       IN  deliver' = [deliver EXCEPT
                !.output_dir = {f \in @ : f.name # name}
                                   \cup {[name |-> name, chunk |-> deliver.pack_idx + 1]},
                !.wastickers_files = Append(@, name),
                !.pack_idx = @ + 1,
                !.pc = IF deliver.pack_idx + 1 = deliver.num_packs THEN "send" ELSE "build"]
    /\ UNCHANGED <<zvars, bsearch, sched>>

\* bot_handlers.py:283-295, one file_path of the loop: if the file exists it
\* is sent and removed
deliver_send ==
    /\ deliver.pc = "send"
    /\ LET file_path == deliver.wastickers_files[deliver.i + 1]
           found == {f \in deliver.output_dir : f.name = file_path}
       IN  deliver' = [deliver EXCEPT
                !.sent = IF found = {} THEN @ ELSE Append(@, (CHOOSE f \in found : TRUE).chunk),
                !.output_dir = @ \ found,
                !.i = @ + 1,
                !.pc = IF deliver.i + 1 = Len(deliver.wastickers_files)
                       THEN "done" ELSE "send"]
    /\ UNCHANGED <<zvars, bsearch, sched>>

InitDeliver ==
    /\ InitProgram
    /\ InitConvertIdle
    /\ InitOptimizeIdle
    /\ pack = "idle"
    /\ chunk = "idle"
    /\ webp = "idle"
    /\ fname = "idle"
    /\ bsearch = "idle"
    /\ sched = "idle"
    /\ \E n \in 1..MaxTitle, k \in 2..MaxPacks :
        deliver = [pc |-> "build", title |-> [j \in 1..n |-> "a"], num_packs |-> k,
                   pack_idx |-> 0, output_dir |-> {}, wastickers_files |-> <<>>,
                   i |-> 0, sent |-> <<>>]

NextDeliver == deliver_build \/ deliver_send

SpecDeliver == InitDeliver /\ [][NextDeliver]_vars

----------------------------------------------------------------------------
\* QueueManager._lock and the asyncio event loop (src/queue_manager.py:28-80
\* and the calls of src/bot_handlers.py:195, 223, 243, 307, 318, 330).  The
\* coroutines are the handle_message and process_queue tasks; one of them at
\* most runs, from one suspension point to the next, while the others are
\* suspended at an await.  An operation of QueueManager is acquire -- which
\* suspends only when the lock is held -- the statements under the lock, and
\* release.

Coroutines ==
    {<<"handle_message", u>> : u \in Users} \cup {<<"process_queue", w>> : w \in Tasks}
NoTask == <<"none", 0>>

\* the awaits in the coroutines themselves: reply_text (line 205) for a
\* handler, the sends, get_sticker_set and create_wastickers_pack (lines
\* 229-318) for a worker; "created" is a task not yet run, "waiting" one
\* suspended in _lock.acquire()
Suspended == {"created", "reply", "job", "waiting"}

\* the operation a coroutine calls first: lines 195 and 223
first_op(t) == IF t[1] = "handle_message" THEN "add_to_queue" ELSE "get_next_item"

lk_body_awaits(t) ==
    /\ sched.running = t
    /\ sched.pc[t] = "locked"
    /\ sched' = [sched EXCEPT !.running = NoTask]
    /\ UNCHANGED <<zvars, bsearch, deliver>>

\* the event loop resumes a suspended coroutine: a new task or one whose
\* await is over goes on to its next QueueManager call (a handler whose
\* reply is sent has returned and is started again by the next message); one
\* waiting for the lock takes it once it is free
lk_resume(t) ==
    /\ sched.running = NoTask
    /\ sched.pc[t] \in Suspended
    /\ sched.pc[t] = "waiting" => sched.lock = NoTask
    /\ sched' = [sched EXCEPT
                    !.running = t,
                    !.lock = IF sched.pc[t] = "waiting" THEN t ELSE @,
                    !.op[t] = IF sched.pc[t] = "job" THEN "complete_processing"
                              ELSE IF sched.pc[t] = "waiting" THEN @
                              ELSE first_op(t),
                    !.pc[t] = IF sched.pc[t] = "waiting" THEN "locked" ELSE "acquire"]
    /\ UNCHANGED <<zvars, bsearch, deliver>>

\* async with self._lock (lines 33, 56, 72): a free lock is taken without
\* suspending, a held one suspends the caller
lk_acquire(t) ==
    /\ sched.running = t
    /\ sched.pc[t] = "acquire"
    /\ sched' = IF sched.lock = NoTask
                THEN [sched EXCEPT !.lock = t, !.pc[t] = "locked"]
                ELSE [sched EXCEPT !.running = NoTask, !.pc[t] = "waiting"]
    /\ UNCHANGED <<zvars, bsearch, deliver>>

\* the statements under the lock (lines 34-52, 57-68, 73-80): none is an await
lk_body(t) ==
    /\ sched.running = t
    /\ sched.pc[t] = "locked"
    /\ sched' = [sched EXCEPT !.pc[t] = "release"]
    /\ UNCHANGED <<zvars, bsearch, deliver>>

\* the end of the with block and what the caller does with the result: a
\* handler awaits reply_text; a worker that got an item awaits the job's
\* network and conversion calls, one that got None leaves (and is created
\* again by a later message); after complete_processing it calls
\* get_next_item without suspending
lk_release(t) ==
    /\ sched.running = t
    /\ sched.pc[t] = "release"
    /\ \E item \in BOOLEAN :
        sched' =
            IF sched.op[t] = "add_to_queue"
            THEN [sched EXCEPT !.lock = NoTask, !.running = NoTask, !.pc[t] = "reply"]
            ELSE IF sched.op[t] = "get_next_item"
            THEN [sched EXCEPT !.lock = NoTask, !.running = NoTask,
                               !.pc[t] = IF item THEN "job" ELSE "created"]
            ELSE [sched EXCEPT !.lock = NoTask, !.op[t] = "get_next_item",
                               !.pc[t] = "acquire"]
    /\ UNCHANGED <<zvars, bsearch, deliver>>

InitLock ==
    /\ InitProgram
    /\ InitConvertIdle
    /\ InitOptimizeIdle
    /\ pack = "idle"
    /\ chunk = "idle"
    /\ webp = "idle"
    /\ fname = "idle"
    /\ bsearch = "idle"
    /\ deliver = "idle"
    /\ sched = [running |-> NoTask, lock |-> NoTask,
                pc |-> [t \in Coroutines |-> "created"],
                op |-> [t \in Coroutines |-> first_op(t)]]

NextLock ==
    \E t \in Coroutines :
        \/ lk_resume(t)
        \/ lk_acquire(t)
        \/ lk_body(t)
        \/ lk_release(t)

SpecLock == InitLock /\ [][NextLock]_vars

----------------------------------------------------------------------------
\* Properties

Active == {queue[i] : i \in 1..Len(queue)} \cup (IF processing # NoItem THEN {processing} ELSE {})
NonTerminal == {i \in 1..Len(items) : items[i].status \in {"waiting", "processing"}}
InLock == {w \in Tasks : wpc[w] # "none"}
\* task w has finished an iteration of the while loop and is back at its top
IterationDone(w) == wpc[w] = "loop" /\ witem[w] # NoItem

\* C1: at most one job has status processing -- it is the one in the active
\* slot, never one of the waiting list -- and at most one process_queue task
\* is inside processing_lock (executing the loop), whatever the interleaving.
C1_SingleActive ==
    /\ Cardinality({i \in 1..Len(items) : items[i].status = "processing"}) <= 1
    /\ \A i \in 1..Len(items) : items[i].status = "processing" => processing = i
    /\ \A i \in 1..Len(queue) : items[queue[i]].status = "waiting"
    /\ Cardinality(InLock) <= 1
    /\ (InLock # {}) => processing_lock

C1_Witness ==
    /\ processing # NoItem
    /\ queue # <<>>
    /\ scheduled > 0
    /\ \E w \in Tasks : wpc[w] \in BodyPcs

\* C2: jobs are returned by get_next_item in the order add_to_queue appended
\* them: the served jobs are a prefix of the appended ones and the waiting list
\* is the rest, in the same order; no identity occupies two places in line.
C2_Fifo ==
    /\ Len(served) <= Len(enq)
    /\ served = SubSeq(enq, 1, Len(served))
    /\ queue = SubSeq(enq, Len(served) + 1, Len(enq))
    /\ \A i, j \in Active : items[i].user_id = items[j].user_id => i = j

\* get_next_item has just returned the older of two waiting jobs
C2_Witness ==
    /\ ret.op = "next"
    /\ served = <<ret.val>>
    /\ Len(queue) = 1
    /\ enq = served \o queue

\* C3: in every iteration of the worker loop complete_processing is called
\* exactly once, for the identity of the dequeued job: never before the
\* iteration ends, never twice, and once by the time the loop is back at
\* get_next_item (from where alone it can dequeue again or leave).
C3_CompleteOnce ==
    \A w \in Tasks :
        /\ Len(wcalls[w]) <= 1
        /\ wpc[w] \in BodyPcs => wcalls[w] = <<>>
        /\ IterationDone(w) =>
              /\ Len(wcalls[w]) = 1
              /\ wcalls[w][1].user = items[witem[w]].user_id

C3_Witness ==
    \E w \in Tasks : IterationDone(w) /\ wraised[w] = "send_doc" /\ Len(wcalls[w]) = 1

C5_WorkerForWaiting ==
    queue # <<>> =>
        \/ scheduled > 0
        \/ InLock # {}
        \/ \E u \in Users : hpc[u] = "added"

\* C6: the end of an iteration, failing or not, leaves the active slot free and
\* the job terminal, and takes the task back to the top of the loop; a task
\* leaves the loop only from there, when nothing is waiting.
C6_FailureKeepsLoop ==
    [][\A w \in Tasks :
          /\ (wpc[w] \in BodyPcs /\ wpc'[w] \notin BodyPcs) =>
                /\ wpc'[w] = "loop"
                /\ processing' = NoItem
                /\ items'[witem[w]].status \in {"completed", "error"}
          /\ (wpc[w] # "none" /\ wpc'[w] = "none") =>
                /\ wpc[w] = "loop"
                /\ queue = <<>>
                /\ processing = NoItem]_vars

C6_Witness ==
    \E w \in Tasks :
        /\ wpc[w] = "notify"
        /\ witem[w] > 1
        /\ items[witem[w] - 1].status = "error"

C8_IndexConsistent ==
    /\ \A u \in Users :
          Cardinality({i \in NonTerminal : items[i].user_id = u}) <= 1
    /\ {u \in Users : user_queues[u] # NoItem} = {items[i].user_id : i \in Active}
    /\ \A u \in Users :
          user_queues[u] # NoItem =>
              /\ user_queues[u] \in Active
              /\ items[user_queues[u]].user_id = u
    /\ Active = NonTerminal
    /\ Cardinality({u \in Users : user_queues[u] # NoItem}) = Cardinality(NonTerminal)
    /\ Cardinality(Active) = Len(queue) + (IF processing # NoItem THEN 1 ELSE 0)

\* complete_processing has just removed an identity while another one waits
C8_Witness ==
    /\ ret.op = "complete"
    /\ user_queues[ret.user] = NoItem
    /\ \E i \in 1..Len(items) :
          items[i].user_id = ret.user /\ items[i].status \in {"completed", "error"}
    /\ queue # <<>>

\* C9: add_to_queue for an identity that has a waiting or processing job
\* returns what get_queue_position returns for it and leaves the waiting list,
\* the active slot, the identity index and every job unchanged.
C9_ResendIdempotent ==
    [][\A u \in Users :
          (/\ tick' # tick
           /\ ret'.op = "add"
           /\ ret'.user = u
           /\ is_user_in_queue(u))
          => /\ ret'.val = get_queue_position(u)
             /\ ret'.val >= 1
             /\ UNCHANGED <<queue, processing, user_queues, items>>]_vars

\* the caller's job is waiting ahead of another one: the call appended nothing
C9_Witness ==
    /\ ret.op = "add"
    /\ Len(queue) = 2
    /\ user_queues[ret.user] = queue[1]
    /\ ret.val = 1

\* C10: add_to_queue for an identity with no waiting or processing job appends
\* a waiting job and returns the position get_queue_position reports for it
\* immediately afterwards (the active slot counted).
C10_ReturnIsPosition ==
    [][\A u \in Users :
          (/\ tick' # tick
           /\ ret'.op = "add"
           /\ ret'.user = u
           /\ ~is_user_in_queue(u))
          => /\ queue' = Append(queue, Len(items'))
             /\ items'[Len(items')] = QueueItem(u)
             /\ ret'.val = get_queue_position(u)']_vars

\* C11: get_next_item called while the active slot is occupied returns None and
\* leaves the waiting list, the active slot, the identity index and every job
\* as they were, even when jobs wait; so a second call with no
\* complete_processing in between returns None.
C11_BusyReturnsNone ==
    [][/\ (tick' # tick /\ ret'.op = "next" /\ processing # NoItem) =>
              /\ ret'.val = NoItem
              /\ UNCHANGED <<queue, processing, user_queues, items, served>>
       /\ (tick' # tick /\ ret'.op = "next" /\ ret.op = "next" /\ ret.val # NoItem) =>
              ret'.val = NoItem]_vars

\* get_next_item has just returned None although a job waits
C11_Witness ==
    /\ ret.op = "next"
    /\ ret.val = NoItem
    /\ processing # NoItem
    /\ queue # <<>>

\* C12: complete_processing for an identity that is not the one in the active
\* slot, or with the slot empty, changes nothing: no status, not the slot, not
\* the identity index, not the waiting list.
C12_MismatchNoOp ==
    [][\A u \in Users :
          (/\ tick' # tick
           /\ ret'.op = "complete"
           /\ ret'.user = u
           /\ (processing = NoItem \/ items[processing].user_id # u))
          => UNCHANGED <<queue, processing, user_queues, items>>]_vars

\* complete_processing was called for an identity that waits behind the active job
C12_Witness ==
    /\ ret.op = "complete"
    /\ processing # NoItem
    /\ items[processing].user_id # ret.user
    /\ user_queues[ret.user] # NoItem
    /\ items[user_queues[ret.user]].status = "waiting"

\* C13: complete_processing for the identity in the active slot marks that job
\* completed (success) or error (failure), deletes the identity's key, empties
\* the slot and leaves the waiting list alone; get_queue_position is then None
\* for the identity, and its next add_to_queue appends a new waiting job.
C13_CompleteActive ==
    [][\A u \in Users :
          /\ (/\ tick' # tick
              /\ ret'.op = "complete"
              /\ ret'.user = u
              /\ processing # NoItem
              /\ items[processing].user_id = u)
             => /\ items'[processing].status = (IF ret'.val = 1 THEN "completed" ELSE "error")
                /\ \A i \in 1..Len(items) : i # processing => items'[i] = items[i]
                /\ Len(items') = Len(items)
                /\ user_queues'[u] = NoItem
                /\ \A v \in Users : v # u => user_queues'[v] = user_queues[v]
                /\ processing' = NoItem
                /\ queue' = queue
                /\ get_queue_position(u)' = NonePos
                /\ ~is_user_in_queue(u)'
          /\ (/\ tick' # tick
              /\ ret'.op = "add"
              /\ ret'.user = u
              /\ ret.op = "complete"
              /\ ret.user = u
              /\ user_queues[u] = NoItem)
             => /\ Len(items') = Len(items) + 1
                /\ items'[Len(items')] = QueueItem(u)
                /\ queue' = Append(queue, Len(items'))
                /\ user_queues'[u] = Len(items')]_vars

\* an identity whose job was completed with success has been enqueued again
C13_Witness ==
    /\ ret.op = "add"
    /\ \E i, j \in 1..Len(items) :
          /\ i < j
          /\ items[i].user_id = ret.user
          /\ items[j].user_id = ret.user
          /\ items[i].status = "completed"
          /\ items[j].status = "waiting"
          /\ user_queues[ret.user] = j

\* C14: a job's status only moves waiting -> processing -> completed | error:
\* a new job starts waiting, a terminal job never changes again, and a job
\* enters the active slot only through get_next_item, which returns it.
C14_StatusOrder ==
    [][/\ \A i \in 1..Len(items) :
             items'[i].status # items[i].status =>
                 <<items[i].status, items'[i].status>> \in
                     {<<"waiting", "processing">>,
                      <<"processing", "completed">>,
                      <<"processing", "error">>}
       /\ \A i \in (Len(items) + 1)..Len(items') : items'[i].status = "waiting"
       /\ Len(items') >= Len(items)
       /\ (processing' # processing /\ processing' # NoItem) =>
             /\ tick' # tick
             /\ ret'.op = "next"
             /\ ret'.val = processing'
             /\ items[processing'].status = "waiting"
             /\ items'[processing'].status = "processing"]_vars

\* one job has gone all the way to completed, another all the way to error
C14_Witness ==
    \E i, j \in 1..Len(items) :
        /\ items[i].status = "completed"
        /\ items[j].status = "error"
        /\ served = enq

\* the position of an identity worked out from the waiting list and the active
\* slot alone: 1 in the slot, index + 1 + (1 if a job is active) in the list
PositionInLine(u) ==
    IF processing # NoItem /\ items[processing].user_id = u THEN 1
    ELSE IF \E i \in 1..Len(queue) : items[queue[i]].user_id = u
    THEN LET index == (CHOOSE i \in 1..Len(queue) : items[queue[i]].user_id = u) - 1
         IN  index + 1 + (IF processing # NoItem THEN 1 ELSE 0)
    ELSE NonePos

\* C15: get_queue_position returns 1 for the identity of the active job,
\* (0-based index in the waiting list) + 1 + (1 if a job is active) for a
\* waiting identity, and None for any other identity.
C15_PositionValue ==
    \A u \in Users : get_queue_position(u) = PositionInLine(u)

\* a waiting identity stands at 2 behind the active job, which stands at 1
C15_Witness ==
    /\ processing # NoItem
    /\ Len(queue) = 1
    /\ get_queue_position(items[queue[1]].user_id) = 2
    /\ get_queue_position(items[processing].user_id) = 1

InLine == {u \in Users : user_queues[u] # NoItem}

\* C16: the positions of the n identities that wait or are active are exactly
\* 1..n, and they increase strictly in the order the jobs were appended.
C16_PositionsDense ==
    /\ {get_queue_position(u) : u \in InLine} = 1..Cardinality(InLine)
    /\ \A u, v \in InLine :
          IndexOf(enq, user_queues[u]) < IndexOf(enq, user_queues[v]) =>
              get_queue_position(u) < get_queue_position(v)

\* two identities in line, the older one active
C16_Witness ==
    /\ Cardinality(InLine) = 2
    /\ processing # NoItem
    /\ served # <<>>
    /\ \E u, v \in InLine : get_queue_position(u) = 1 /\ get_queue_position(v) = 2

\* C17: a conversion makes a bounded number of encoder / evaluator calls,
\* whatever the frame count N >= 1 and whatever sizes the encoder returns:
\* at most Stage A, one halving search per stage and the last re-encoding.
C17_BoundedEvaluations ==
    evaluations <= EvalBound

\* C18: convert never ends without a result: it does not raise, and when it
\* has returned it has written an encoding of at least one frame at a quality
\* of the ladder.
C18_AlwaysSomeEncoding ==
    /\ cpc # "raised"
    /\ cpc = "returned" =>
          /\ final_frames # <<>>
          /\ final_quality \in 1..self_quality

\* the k-th quality level of the descending sequence, the minimal one last
QualityLevel(k) ==
    LET q == quality_levels[1] + (k - 1) * quality_levels[3]
    IN  IF q > quality_levels[2] THEN q ELSE minimal_quality

\* C19: optimize_image_size encodes at the quality levels in strictly
\* decreasing order (95, 90, ..., 15, then 10), every level before the last one
\* tried exceeded the ceiling, and what it returns is the last encoding made:
\* the first one that is <= the ceiling, or the one at the lowest level when
\* none is.
C19_FirstFittingLevel ==
    /\ \A k \in 1..Len(tried) : tried[k][1] = QualityLevel(k)
    /\ \A k \in 1..(Len(tried) - 1) :
          /\ tried[k][1] > tried[k + 1][1]
          /\ tried[k][2] > MAX_STICKER_SIZE_STATIC
    /\ opc = "returned" =>
          /\ tried # <<>>
          /\ output = tried[Len(tried)]
          /\ output[2] <= MAX_STICKER_SIZE_STATIC \/ output[1] = minimal_quality

\* no level fits: the encoding at the lowest level is returned
C19_Witness ==
    /\ opc = "returned"
    /\ output[1] = minimal_quality
    /\ output[2] > MAX_STICKER_SIZE_STATIC
    /\ \A k \in 1..Len(tried) : tried[k][2] > MAX_STICKER_SIZE_STATIC

\* C20 as stated: when the file handed to optimize_image_size is <= the static
\* ceiling, the result is the encoding at the first level of the sequence.
C20_UnderCeilingFirstLevel ==
    (opc = "returned" /\ image_size <= MAX_STICKER_SIZE_STATIC) =>
        output[1] = quality_levels[1]

\* C20: when the encoding at the first level of the descending sequence is
\* <= the static ceiling, the result is that encoding and no other level is
\* tried, whatever the size of the file handed in.
C20_FirstLevelFits ==
    (opc = "returned" /\ tried[1][2] <= MAX_STICKER_SIZE_STATIC) =>
        /\ output = tried[1]
        /\ output[1] = quality_levels[1]
        /\ Len(tried) = 1

\* the first level fits although the file handed in was over the ceiling
C20_Witness ==
    /\ opc = "returned"
    /\ image_size > MAX_STICKER_SIZE_STATIC
    /\ tried[1][2] <= MAX_STICKER_SIZE_STATIC
    /\ output[1] = quality_levels[1]

\* the smallest number of chunks of d items that hold n items
CeilDiv(n, d) == CHOOSE c \in 0..n : c * d >= n /\ \A b \in 0..(c - 1) : b * d < n
Raised == \E k \in 1..Len(pack.chunks) : pack.chunks[k].outcome = "raised"

\* C21: for n items create_wastickers_pack builds ceil(n / MAX_STICKERS_PER_PACK)
\* chunks; the k-th chunk built (k from 1) is the slice [(k-1)*MAX, min(k*MAX, n)),
\* never empty, of exactly MAX items unless it is the last; its title gets the
\* number k exactly when there is more than one chunk.  A call that no
\* exception cut short has built all of them when it returns.
C21_Chunking ==
    LET n     == pack.total_stickers
        cs    == pack.chunks
        M     == MAX_STICKERS_PER_PACK
        count == CeilDiv(n, M)
    IN  /\ Len(cs) <= count
        /\ \A k \in 1..Len(cs) :
            /\ cs[k].start_idx = (k - 1) * M
            /\ cs[k].end_idx = (IF k * M <= n THEN k * M ELSE n)
            /\ cs[k].start_idx < cs[k].end_idx
            /\ k < count => cs[k].end_idx - cs[k].start_idx = M
            /\ cs[k].suffix = (IF count > 1 THEN k ELSE 0)
        /\ (pack.pc = "done" /\ ~Raised) => Len(cs) = count
\* 75 items came back as chunks of 30, 30 and 15 numbered 1, 2, 3
C21_Witness ==
    /\ pack.pc = "done"
    /\ pack.total_stickers = 75
    /\ Len(pack.chunks) = 3
    /\ \A k \in 1..3 : pack.chunks[k].suffix = k
    /\ pack.chunks[1].end_idx - pack.chunks[1].start_idx = 30
    /\ pack.chunks[2].end_idx - pack.chunks[2].start_idx = 30
    /\ pack.chunks[3].end_idx - pack.chunks[3].start_idx = 15

\* C22: when create_wastickers_pack has returned, every chunk of the set was
\* attempted, and every chunk that produced a bundle file is in the returned
\* list, whatever happened to the chunks before and after it.
C22_ChunksIndependent ==
    pack.pc = "done" =>
        /\ Len(pack.chunks) = pack.num_packs
        /\ \A k \in 1..Len(pack.chunks) :
            pack.chunks[k].outcome = "file" =>
                \E j \in 1..Len(pack.returned) : pack.returned[j] = k

\* C27: when create_wastickers_pack has returned, by either return statement,
\* the temporary directory it made no longer exists.
C27_TempDirRemoved == pack.pc = "done" => ~pack.temp_dir
\* a call that ended in the except clause, after a chunk had been built
C27_Witness ==
    /\ pack.pc = "done"
    /\ Raised
    /\ Len(pack.chunks) > 1
    /\ ~pack.temp_dir

Survivors == {k \in 1..Len(chunk.attempted) : chunk.attempted[k] = "converted"}
Artifacts == {f \in chunk.archive : f.kind = "webp"}

C24_BundleContents ==
    chunk.result = "file" =>
        /\ File("icon", 0) \in chunk.archive
        /\ File("author", 0) \in chunk.archive
        /\ File("title", 0) \in chunk.archive
        /\ Cardinality(Artifacts) <= MAX_STICKERS_PER_PACK

\* C25: the artifacts of a returned bundle with N artifacts are named 1..N,
\* also when items of the chunk were skipped.
C25_NamedByPosition ==
    chunk.result = "file" =>
        {f.n : f \in Artifacts} = 1..Cardinality(Artifacts)

C29_DurationPreserved ==
    webp.pc = "saved" =>
        LET original == 1000 * webp.total_frames
            written  == webp.k * webp.frame_duration * webp.original_fps
            unit     == webp.frame_duration * webp.original_fps
        IN  /\ original - written < unit
            /\ written - original < unit

Whitespace == {" ", "\t"}

\* C30: what sanitize_filename returns is not empty, is at most 50 characters
\* long, holds none of the characters [<>:"/\|?*], neither begins nor ends
\* with a white-space character or a period, and is the default name when
\* nothing of the argument is left.
C30_SanitizedName ==
    fname.pc = "done" =>
        LET r == fname.result
        IN  /\ r # <<>>
            /\ Len(r) <= 50
            /\ \A i \in 1..Len(r) : r[i] \notin InvalidChars
            /\ r[1] \notin Whitespace \cup {"."}
            /\ r[Len(r)] \notin Whitespace \cup {"."}
            /\ (\A i \in 1..Len(fname.input) : fname.input[i] \in {" ", "."}) => r = DefaultName

InWindow(size) == SIZE_TARGET_RANGE[1] <= size /\ size <= SIZE_TARGET_RANGE[2]
BelowWindow(size) == size < SIZE_TARGET_RANGE[1]
\* the size the evaluator gave for the i-th value it was called with
EvaluatedSize(i) == bsearch.evaluator[bsearch.evaluated[i]]
\* the values of the search space the evaluator can be asked about
SearchValues == {v \in 1..MaxSearch : bsearch.search_space[1] <= v /\ v <= bsearch.search_space[2]}
Monotone == \A u, v \in SearchValues : u <= v => bsearch.evaluator[u] <= bsearch.evaluator[v]
NoRepetition ==
    \A i, j \in 1..Len(bsearch.evaluated) :
        i # j => bsearch.evaluated[i] # bsearch.evaluated[j]

\* C32: within one call of _binary_search no value is given to the evaluator
\* twice, for every search space (also one that begins at 0) and evaluator.
C32_NoRepeatedMidpoint == NoRepetition

\* C33: _binary_search goes on only while no evaluated size was inside the
\* window and returns the first value whose size is; when the loop ends
\* without one it returns the value evaluated last among those whose size was
\* below the window, with that size, or nothing when there was none; the size
\* it returns is never above the window.
C33_SearchResult ==
    LET ev    == bsearch.evaluated
        hits  == {i \in 1..Len(ev) : InWindow(EvaluatedSize(i))}
        below == {i \in 1..Len(ev) : BelowWindow(EvaluatedSize(i))}
    IN  /\ bsearch.pc = "loop" => hits = {}
        /\ bsearch.pc = "returned" =>
              /\ hits # {} =>
                    /\ hits = {Len(ev)}
                    /\ bsearch.result = <<ev[Len(ev)], EvaluatedSize(Len(ev))>>
              /\ (hits = {} /\ below # {}) =>
                    LET k == CHOOSE i \in below : \A j \in below : j <= i
                    IN  bsearch.result = <<ev[k], EvaluatedSize(k)>>
              /\ (hits = {} /\ below = {}) => bsearch.result = <<NoValue, NoValue>>
              /\ bsearch.result[1] # NoValue => bsearch.result[2] <= SIZE_TARGET_RANGE[2]
\* a search that ended without a hit and returned the value it had evaluated
\* before the last one, whose size was above the window
C33_Witness ==
    /\ bsearch.pc = "returned"
    /\ Len(bsearch.evaluated) = 2
    /\ bsearch.result[1] = bsearch.evaluated[1]
    /\ BelowWindow(bsearch.result[2])
    /\ ~BelowWindow(EvaluatedSize(2))

\* C39: with an evaluator that never gives a larger value a smaller size,
\* a search over a space that holds a value with a size inside the window
\* repeats no evaluation and returns a value of the space with its size, which
\* is inside the window; and a value returned with a size below the window is
\* the largest evaluated value of such a size.
C39_MonotoneSearch ==
    Monotone =>
        LET ev      == bsearch.evaluated
            below   == {ev[i] : i \in {j \in 1..Len(ev) : BelowWindow(EvaluatedSize(j))}}
            reaches == \E v \in SearchValues : InWindow(bsearch.evaluator[v])
        IN  /\ reaches => NoRepetition
            /\ (reaches /\ bsearch.pc = "returned") =>
                  /\ bsearch.result[1] \in SearchValues
                  /\ bsearch.result[2] = bsearch.evaluator[bsearch.result[1]]
                  /\ InWindow(bsearch.result[2])
            /\ (/\ bsearch.pc = "returned"
                /\ bsearch.result[1] # NoValue
                /\ BelowWindow(bsearch.result[2])) =>
                  /\ bsearch.result[1] \in below
                  /\ \A v \in below : v <= bsearch.result[1]
\* the only value of the space 1..4 with a size inside the window was found
\* by the third evaluation
C39_Witness ==
    /\ Monotone
    /\ bsearch.pc = "returned"
    /\ bsearch.search_space = <<1, 4>>
    /\ Len(bsearch.evaluated) = 3
    /\ InWindow(bsearch.result[2])
    /\ Cardinality({v \in SearchValues : InWindow(bsearch.evaluator[v])}) = 1

\* C34 as stated: convert goes from the initial encoding to the final save
\* exactly when the size of that encoding is inside the window, and to the
\* first frame-count search when it is above or below it.
C34_StopsIffInWindow ==
    [][cpc = "A" =>
          /\ cpc' = "save" <=> InWindow(current_size')
          /\ ~InWindow(current_size') => cpc' = "B"]_vars

\* C34: convert goes from the initial encoding to the final save exactly when
\* the size of that encoding is not above the window, be it inside or below;
\* when it is above it goes to the frame-count search over frame_range_1.
C34_StopsIffNotAbove ==
    [][cpc = "A" =>
          /\ cpc' = "save" <=> current_size' <= SIZE_TARGET_RANGE[2]
          /\ current_size' > SIZE_TARGET_RANGE[2] =>
                /\ cpc' = "B"
                /\ <<low', high'>> = frame_range_1]_vars
\* the first encoding was smaller than the window and no search followed
C34_Witness ==
    /\ cpc = "save"
    /\ evaluations = 1
    /\ current_size < SIZE_TARGET_RANGE[1]

\* C35: the searches of convert are entered in one order only -- the frame
\* count over frame_range_1 at the default quality after the initial encoding,
\* the quality over quality_range_1 at fallback_frame_count frames, the frame
\* count over frame_range_2 at quality quality_range_1[0], the quality of a
\* single frame over quality_range_2 -- each but the first when the search
\* before it has returned nothing; and convert goes to the final save with a
\* size above the window only from the last of them.
C35_StageOrder ==
    [][/\ (cpc' = "B" /\ cpc # "B") =>
              /\ cpc = "A"
              /\ final_quality' = self_quality
              /\ <<low', high'>> = frame_range_1
       /\ (cpc' = "C" /\ cpc # "C") =>
              /\ cpc = "B_ret"
              /\ search_result[1] = NoValue
              /\ final_quality' = self_quality
              /\ final_frames' = select_frames(fallback_frame_count)
              /\ <<low', high'>> = quality_range_1
       /\ (cpc' = "D" /\ cpc # "D") =>
              /\ cpc = "C_ret"
              /\ search_result[1] = NoValue
              /\ final_quality' = quality_range_1[1]
              /\ <<low', high'>> = frame_range_2
       /\ (cpc' = "E" /\ cpc # "E") =>
              /\ cpc = "D_ret"
              /\ search_result[1] = NoValue
              /\ Len(final_frames') = 1
              /\ <<low', high'>> = quality_range_2
       /\ \A stage \in SearchStages :
              (cpc' = Returned(stage) /\ cpc # Returned(stage)) => cpc = stage
       /\ (cpc' = "save" /\ cpc # "save") =>
              \/ current_size' <= SIZE_TARGET_RANGE[2]
              \/ cpc = "E_ret"]_vars
\* the third search found a frame count after the first two had found nothing
C35_Witness ==
    /\ cpc = "save"
    /\ final_quality = quality_range_1[1]
    /\ Len(final_frames) < fallback_frame_count
    /\ current_size <= SIZE_TARGET_RANGE[2]

\* C36: for N source frames and every count c in 1..N, select_frames returns
\* c frames: their indices begin at 0, increase strictly by steps that differ
\* by one at most, stay below N and, for c >= 2, end at N - 1; for c = N they
\* are all the frames.
C36_SelectFrames ==
    \A c \in 1..original_total_frames :
        /\ ~select_frames_raises(c)
        /\ LET N == original_total_frames
               f == select_frames(c)
           IN  /\ Len(f) = c
               /\ f[1] = 0
               /\ \A i \in 1..c : f[i] \in 0..(N - 1)
               /\ \A i \in 1..(c - 1) : f[i] < f[i + 1]
               /\ \A i, j \in 1..(c - 1) :
                     (f[i + 1] - f[i]) - (f[j + 1] - f[j]) \in {-1, 0, 1}
               /\ c >= 2 => f[c] = N - 1
               /\ c = N => f = [i \in 1..N |-> i - 1]

\* C37: the k > 1 bundles of a job are in k files of different names when the
\* last is written, and when the send loop is over the requester has been
\* sent k documents, the bundle of each chunk once, whatever the length of
\* the title.
C37_DistinctOutputFiles ==
    /\ deliver.pc = "send" /\ deliver.i = 0 =>
          /\ Cardinality(deliver.output_dir) = deliver.num_packs
          /\ \A i, j \in 1..Len(deliver.wastickers_files) :
                i # j => deliver.wastickers_files[i] # deliver.wastickers_files[j]
    /\ deliver.pc = "done" =>
          deliver.sent = [j \in 1..deliver.num_packs |-> j]

\* the iteration of task w met a failure outside the program: the selector did
\* not resolve or no bundle was built (the iteration ended in error without
\* an exception), or a call after the first statement of the try block raised
FailedOutside(w) ==
    \/ wraised[w] = "no" /\ wfiles[w] = 0
    \/ wraised[w] \notin {"no", "notify"}

\* C38: an iteration of the worker loop that has ended without such a
\* failure -- the selector resolved, bundles were built, every send returned --
\* has delivered every bundle and called complete_processing with success =
\* true: the job is completed.
C38_CompletedReachable ==
    \A w \in Tasks :
        (IterationDone(w) /\ ~FailedOutside(w)) =>
            /\ wfiles[w] > 0
            /\ widx[w] = wfiles[w]
            /\ wcalls[w] = <<[user |-> items[witem[w]].user_id, success |-> TRUE]>>
            /\ items[witem[w]].status = "completed"

\* C31: a coroutine that holds QueueManager._lock is the one that is running:
\* at no suspension point -- a reply, a job's network, file or encoder call,
\* the wait for the lock itself -- is the lock held, so that no coroutine
\* ever has to wait for it, least of all for the time a job takes.
C31_LockNotHeldAcrossAwait ==
    /\ sched.lock # NoTask => sched.running = sched.lock
    /\ \A t \in Coroutines :
          /\ sched.pc[t] \in Suspended => sched.lock # t
          /\ sched.pc[t] # "waiting"
\* a handler is inside add_to_queue, holding the lock, while a worker is
\* suspended in the processing of a job
C31_Witness ==
    \E h, w \in Coroutines :
        /\ sched.lock = h
        /\ sched.pc[h] = "locked"
        /\ sched.op[h] = "add_to_queue"
        /\ sched.pc[w] = "job"

====
